---- MODULE Spec2Model ----
(***************************************************************************)
(* Model of repair_manager.pyw: the SQLite tables of the repair shop, the  *)
(* CRUD functions that write them, and the two report queries.             *)
(*                                                                         *)
(* Every table is a sequence of rows in rowid order; the row at position i *)
(* has primary key i (rows are never deleted).  Every write is one         *)
(* run_query call: its own connection, one statement, one commit.          *)
(* No connection ever issues PRAGMA foreign_keys, so SQLite checks no      *)
(* reference on insert or update.                                          *)
(***************************************************************************)
EXTENDS Integers, Sequences, FiniteSets

VARIABLES Customers, Equipment, Technicians, Parts, WorkOrders, WorkDetails,
          PartsUsed,
          \* history: stocked[p] is the quantity part p was created with
          stocked

vars == <<Customers, Equipment, Technicians, Parts, WorkOrders, WorkDetails,
          PartsUsed, stocked>>

(* ---------------- bounds of the model ---------------- *)
\* rows stored in all tables together
MaxRows == 3
\* rows stored in the tables the reports read, in SpecReports
MaxReportRows == 4
\* rows stored in the tables of the parts-usage flow, in SpecLedger
MaxLedgerRows == 4

(* ---------------- values ---------------- *)
\* SQL NULL / Python None in an integer or date column
NULL == 0
\* quantity of the part seeded at program start
DefaultPartQty == 5
\* the system date a call reads with date.today(); isoformat() writes it as
\* YYYY-MM-DD and SQLite compares the texts, which orders them as the numbers
\* YYYYMMDD
Dates == {20240101, 20240201, 20240301}
FirstNames == {"", "Jane"}
LastNames == {"Doe"}
Skus == {"", "BAT-001"}
\* quantity typed into the Add Part form
StockQuantities == {0, 2}
\* quantity typed into the Use Part form
Quantities == {-1, 0, 1, 2}
\* a caller-supplied id: the key of a stored row, or the first unknown key
IdsOf(table) == 1..(Len(table) + 1)

Rows == Len(Customers) + Len(Equipment) + Len(Technicians) + Len(Parts)
        + Len(WorkOrders) + Len(WorkDetails) + Len(PartsUsed)

\* cur.lastrowid of an INSERT: the next integer key of the table
lastrowid(table) == Len(table) + 1

(* ---------------- CRUD ---------------- *)
\* database_schema.sql declares the tables.  It is modelled with no column
\* constraint on a quantity: Parts.quantity and PartsUsed.quantity take any
\* integer (the quantities are described as unconstrained: stock may go negative).
SchemaAccepts(qty) == qty \in Int

add_customer(first_name, last_name) ==
    /\ Customers' = Append(Customers, [first_name |-> first_name, last_name |-> last_name])
    /\ UNCHANGED <<Equipment, Technicians, Parts, WorkOrders, WorkDetails, PartsUsed, stocked>>

\* Save of the Add Customer form: an empty first or last name is answered with
\* an error box and nothing is stored, otherwise add_customer runs
ui_add_customer_save(first_name, last_name) ==
    IF first_name = "" \/ last_name = ""
    THEN UNCHANGED vars
    ELSE add_customer(first_name, last_name)

add_equipment(customer_id) ==
    /\ Equipment' = Append(Equipment, [customer_id |-> customer_id])
    /\ UNCHANGED <<Customers, Technicians, Parts, WorkOrders, WorkDetails, PartsUsed, stocked>>

add_technician(name) ==
    /\ Technicians' = Append(Technicians, [name |-> name])
    /\ UNCHANGED <<Customers, Equipment, Parts, WorkOrders, WorkDetails, PartsUsed, stocked>>

add_part(sku, qty) ==
    /\ SchemaAccepts(qty)
    /\ Parts' = Append(Parts, [sku |-> sku, quantity |-> qty])
    /\ stocked' = Append(stocked, qty)
    /\ UNCHANGED <<Customers, Equipment, Technicians, WorkOrders, WorkDetails, PartsUsed>>

create_workorder(equipment_id, technician_id, today) ==
    /\ WorkOrders' = Append(WorkOrders,
          [equipment_id |-> equipment_id, technician_id |-> technician_id,
           date_opened |-> today, date_closed |-> NULL, status |-> "Open"])
    /\ UNCHANGED <<Customers, Equipment, Technicians, Parts, WorkDetails, PartsUsed, stocked>>

\* close_workorder as a status toggle: a Closed work order is opened again
close_workorder_Toggle(workorder_id, today) ==
    /\ WorkOrders' = [w \in DOMAIN WorkOrders |->
          IF w = workorder_id
          THEN [WorkOrders[w] EXCEPT
                  !.date_closed = today,
                  !.status = IF WorkOrders[w].status = "Closed" THEN "Open" ELSE "Closed"]
          ELSE WorkOrders[w]]
    /\ UNCHANGED <<Customers, Equipment, Technicians, Parts, WorkDetails, PartsUsed, stocked>>

\* the UPDATE without its WHERE clause: every work order is closed
close_workorder_NoWhere(workorder_id, today) ==
    /\ WorkOrders' = [w \in DOMAIN WorkOrders |->
          [WorkOrders[w] EXCEPT !.date_closed = today, !.status = "Closed"]]
    /\ UNCHANGED <<Customers, Equipment, Technicians, Parts, WorkDetails, PartsUsed, stocked>>

\* the UPDATE restricted to Open rows: a Closed work order keeps its first date_closed
close_workorder_KeepFirst(workorder_id, today) ==
    /\ WorkOrders' = [w \in DOMAIN WorkOrders |->
          IF w = workorder_id /\ WorkOrders[w].status = "Open"
          THEN [WorkOrders[w] EXCEPT !.date_closed = today, !.status = "Closed"]
          ELSE WorkOrders[w]]
    /\ UNCHANGED <<Customers, Equipment, Technicians, Parts, WorkDetails, PartsUsed, stocked>>

\* UPDATE ... WHERE workorder_id=?: every matching row, none when the id is unknown
close_workorder(workorder_id, today) ==
    /\ WorkOrders' = [w \in DOMAIN WorkOrders |->
          IF w = workorder_id
          THEN [WorkOrders[w] EXCEPT !.date_closed = today, !.status = "Closed"]
          ELSE WorkOrders[w]]
    /\ UNCHANGED <<Customers, Equipment, Technicians, Parts, WorkDetails, PartsUsed, stocked>>

\* add_work_detail refusing a work order that is not Open
add_work_detail_OpenOnly(workorder_id, today) ==
    /\ workorder_id \in DOMAIN WorkOrders
    /\ WorkOrders[workorder_id].status = "Open"
    /\ WorkDetails' = Append(WorkDetails, [workorder_id |-> workorder_id, date |-> today])
    /\ UNCHANGED <<Customers, Equipment, Technicians, Parts, WorkOrders, PartsUsed, stocked>>

add_work_detail(workorder_id, today) ==
    /\ WorkDetails' = Append(WorkDetails, [workorder_id |-> workorder_id, date |-> today])
    /\ UNCHANGED <<Customers, Equipment, Technicians, Parts, WorkOrders, PartsUsed, stocked>>

\* first statement of use_part, committed by its own run_query
InsertPartsUsed(workorder_id, part_id, qty) ==
    Append(PartsUsed, [workorder_id |-> workorder_id, part_id |-> part_id, quantity |-> qty])

\* the UPDATE without its WHERE clause: every part is decremented
DecrementPart_NoWhere(part_id, qty) ==
    [p \in DOMAIN Parts |-> [Parts[p] EXCEPT !.quantity = Parts[p].quantity - qty]]

\* the UPDATE with the quantity floored at zero: MAX(quantity - ?, 0)
DecrementPart_Floor(part_id, qty) ==
    [p \in DOMAIN Parts |->
        IF p = part_id
        THEN [Parts[p] EXCEPT !.quantity =
                 IF Parts[p].quantity - qty < 0 THEN 0 ELSE Parts[p].quantity - qty]
        ELSE Parts[p]]

\* second statement of use_part, committed by its own run_query
DecrementPart(part_id, qty) ==
    [p \in DOMAIN Parts |->
        IF p = part_id
        THEN [Parts[p] EXCEPT !.quantity = Parts[p].quantity - qty]
        ELSE Parts[p]]

use_part(workorder_id, part_id, qty) ==
    /\ SchemaAccepts(qty)
    /\ PartsUsed' = InsertPartsUsed(workorder_id, part_id, qty)
    /\ Parts' = DecrementPart(part_id, qty)
    /\ UNCHANGED <<Customers, Equipment, Technicians, WorkOrders, WorkDetails, stocked>>

\* use_part stopped between its two run_query calls (process killed, or the
\* second run_query raising): the insert is committed, the update never runs
use_part_interrupted(workorder_id, part_id, qty) ==
    /\ SchemaAccepts(qty)
    /\ PartsUsed' = InsertPartsUsed(workorder_id, part_id, qty)
    /\ UNCHANGED <<Customers, Equipment, Technicians, Parts, WorkOrders, WorkDetails, stocked>>

\* program start: a default technician and a default part when the tables are empty
seed_defaults ==
    /\ Technicians = <<>> \/ Parts = <<>>
    /\ Technicians' = IF Technicians = <<>> THEN <<[name |-> "Default Tech"]>> ELSE Technicians
    /\ Parts' = IF Parts = <<>> THEN <<[sku |-> "BAT-001", quantity |-> DefaultPartQty]>> ELSE Parts
    /\ stocked' = IF Parts = <<>> THEN <<DefaultPartQty>> ELSE stocked
    /\ UNCHANGED <<Customers, Equipment, WorkOrders, WorkDetails, PartsUsed>>

\* program start stopped between its two seeds (process killed before line
\* 369, or add_part raising): the default technician is committed, the default
\* part is never inserted.  The next start completes the seed.
seed_defaults_interrupted ==
    /\ Technicians = <<>>
    /\ Technicians' = <<[name |-> "Default Tech"]>>
    /\ UNCHANGED <<Customers, Equipment, Parts, WorkOrders, WorkDetails, PartsUsed, stocked>>

(* ---------------- reports ---------------- *)
\* JOIN Equipment e ON wo.equipment_id=e.equipment_id: the row joins when its
\* equipment is stored (equipment_id is the key of Equipment: at most one match)
JoinsEquipment(w) == WorkOrders[w].equipment_id \in DOMAIN Equipment

\* JOIN Customers c ON e.customer_id=c.customer_id, after the join with Equipment
JoinsCustomer(w) ==
    /\ JoinsEquipment(w)
    /\ Equipment[WorkOrders[w].equipment_id].customer_id \in DOMAIN Customers

\* the keys of the WorkOrders rows that pass the joins and the WHERE clause
\* (the set keep), in rowid order (the scan order)
ScanWorkOrders(keep) ==
    SelectSeq([w \in DOMAIN WorkOrders |-> w], LAMBDA w : w \in keep)

\* ORDER BY wo.date_opened [DESC]: SQLite's sorter keeps rows of equal date in
\* scan order.  InsertRow puts w into the sorted keys s behind every key it does
\* not precede.
RECURSIVE InsertRow(_, _, _)
InsertRow(s, w, desc) ==
    IF s = <<>> THEN <<w>>
    ELSE IF (IF desc THEN WorkOrders[w].date_opened > WorkOrders[Head(s)].date_opened
                     ELSE WorkOrders[w].date_opened < WorkOrders[Head(s)].date_opened)
         THEN <<w>> \o s
         ELSE <<Head(s)>> \o InsertRow(Tail(s), w, desc)

RECURSIVE OrderByDateOpened(_, _)
OrderByDateOpened(keys, desc) ==
    IF keys = <<>> THEN <<>>
    ELSE LET n == Len(keys)
         IN  InsertRow(OrderByDateOpened(SubSeq(keys, 1, n - 1), desc), keys[n], desc)

\* the rows a report returns, by key: the columns the claims read
OpenRow(w) == [workorder_id |-> w, date_opened |-> WorkOrders[w].date_opened,
               equipment_id |-> WorkOrders[w].equipment_id]
HistoryRow(w) == [workorder_id |-> w, date_opened |-> WorkOrders[w].date_opened,
                  date_closed |-> WorkOrders[w].date_closed,
                  status |-> WorkOrders[w].status]

\* the open-work-orders query without WHERE wo.status='Open'
get_open_workorders_NoWhere ==
    LET keep == {w \in DOMAIN WorkOrders : JoinsCustomer(w)}
        keys == OrderByDateOpened(ScanWorkOrders(keep), FALSE)
    IN  [i \in DOMAIN keys |-> OpenRow(keys[i])]

get_open_workorders ==
    LET keep == {w \in DOMAIN WorkOrders :
                    JoinsCustomer(w) /\ WorkOrders[w].status = "Open"}
        keys == OrderByDateOpened(ScanWorkOrders(keep), FALSE)
    IN  [i \in DOMAIN keys |-> OpenRow(keys[i])]

\* the history query without DESC
get_workorders_by_customer_Asc(customer_id) ==
    LET keep == {w \in DOMAIN WorkOrders :
                    /\ JoinsEquipment(w)
                    /\ Equipment[WorkOrders[w].equipment_id].customer_id = customer_id}
        keys == OrderByDateOpened(ScanWorkOrders(keep), FALSE)
    IN  [i \in DOMAIN keys |-> HistoryRow(keys[i])]

get_workorders_by_customer(customer_id) ==
    LET keep == {w \in DOMAIN WorkOrders :
                    /\ JoinsEquipment(w)
                    /\ Equipment[WorkOrders[w].equipment_id].customer_id = customer_id}
        keys == OrderByDateOpened(ScanWorkOrders(keep), TRUE)
    IN  [i \in DOMAIN keys |-> HistoryRow(keys[i])]

(* ---------------- specification ---------------- *)
Init ==
    /\ Customers = <<>> /\ Equipment = <<>> /\ Technicians = <<>> /\ Parts = <<>>
    /\ WorkOrders = <<>> /\ WorkDetails = <<>> /\ PartsUsed = <<>>
    /\ stocked = <<>>

\* the operations that store a row run while the tables hold fewer than MaxRows rows
Room == Rows < MaxRows

Next ==
    \/ \E f \in FirstNames, l \in LastNames : Room /\ add_customer(f, l)
    \/ \E f \in FirstNames, l \in LastNames : Room /\ ui_add_customer_save(f, l)
    \/ \E c \in IdsOf(Customers) : Room /\ add_equipment(c)
    \/ Room /\ add_technician("Tech")
    \/ \E s \in Skus, q \in StockQuantities : Room /\ add_part(s, q)
    \/ \E e \in IdsOf(Equipment), t \in DOMAIN Technicians \cup {NULL}, d \in Dates :
          Room /\ create_workorder(e, t, d)
    \/ \E w \in IdsOf(WorkOrders), d \in Dates : close_workorder(w, d)
    \/ \E w \in IdsOf(WorkOrders), d \in Dates : Room /\ add_work_detail(w, d)
    \/ \E w \in IdsOf(WorkOrders), p \in IdsOf(Parts), q \in Quantities :
          Room /\ use_part(w, p, q)
    \/ \E w \in IdsOf(WorkOrders), p \in IdsOf(Parts), q \in Quantities :
          Room /\ use_part_interrupted(w, p, q)
    \/ Room /\ seed_defaults
    \/ Room /\ seed_defaults_interrupted

Spec == Init /\ [][Next]_vars

\* The report queries read Customers, Equipment, Technicians and WorkOrders only:
\* the operations that write those tables, with room for more work orders.
ReportRoom == Rows < MaxReportRows

ReportsNext ==
    \/ \E f \in FirstNames, l \in LastNames : ReportRoom /\ add_customer(f, l)
    \/ \E c \in IdsOf(Customers) : ReportRoom /\ add_equipment(c)
    \/ ReportRoom /\ add_technician("Tech")
    \/ \E e \in IdsOf(Equipment), t \in DOMAIN Technicians \cup {NULL}, d \in Dates :
          ReportRoom /\ create_workorder(e, t, d)
    \/ \E w \in IdsOf(WorkOrders), d \in Dates : close_workorder(w, d)

SpecReports == Init /\ [][ReportsNext]_vars

\* The inventory ledger is Parts and PartsUsed, written against work orders:
\* the operations of the work-order/parts-usage flow on one day, with room for
\* two parts next to a work order and a usage.
LedgerDates == {20240101}
LedgerRoom == Rows < MaxLedgerRows

LedgerNext ==
    \/ \E s \in Skus, q \in StockQuantities : LedgerRoom /\ add_part(s, q)
    \/ \E e \in IdsOf(Equipment), t \in DOMAIN Technicians \cup {NULL}, d \in LedgerDates :
          LedgerRoom /\ create_workorder(e, t, d)
    \/ \E w \in IdsOf(WorkOrders), d \in LedgerDates : close_workorder(w, d)
    \/ \E w \in IdsOf(WorkOrders), d \in LedgerDates : LedgerRoom /\ add_work_detail(w, d)
    \/ \E w \in IdsOf(WorkOrders), p \in IdsOf(Parts), q \in Quantities :
          LedgerRoom /\ use_part(w, p, q)
    \/ \E w \in IdsOf(WorkOrders), p \in IdsOf(Parts), q \in Quantities :
          LedgerRoom /\ use_part_interrupted(w, p, q)
    \/ LedgerRoom /\ seed_defaults
    \/ LedgerRoom /\ seed_defaults_interrupted

SpecLedger == Init /\ [][LedgerNext]_vars

(* ---------------- the work order flow under a clock that never goes back ---------------- *)
\* the dates the program has stored; every one was date.today() of some call
StoredDates ==
    {WorkOrders[w].date_opened : w \in DOMAIN WorkOrders}
    \cup {WorkOrders[w].date_closed : w \in DOMAIN WorkOrders}
    \cup {WorkDetails[i].date : i \in DOMAIN WorkDetails}
    \cup {NULL}

\* the latest date stored.  When the system date never goes backwards this is
\* the date read by the last call that stored one, and the next call reads a
\* date that is no earlier (a close_workorder that matched no row stored nothing).
LatestDate == CHOOSE d \in StoredDates : \A e \in StoredDates : e <= d

MonoNext ==
    \/ \E c \in IdsOf(Customers) : Room /\ add_equipment(c)
    \/ Room /\ add_technician("Tech")
    \/ \E e \in IdsOf(Equipment), t \in DOMAIN Technicians \cup {NULL}, d \in Dates :
          d >= LatestDate /\ Room /\ create_workorder(e, t, d)
    \/ \E w \in IdsOf(WorkOrders), d \in Dates :
          d >= LatestDate /\ close_workorder(w, d)
    \/ \E w \in IdsOf(WorkOrders), d \in Dates :
          d >= LatestDate /\ Room /\ add_work_detail(w, d)

SpecMono == Init /\ [][MonoNext]_vars

(* ---------------- properties: inventory ledger ---------------- *)
\* the PartsUsed row a step has appended
NewUsage == PartsUsed'[Len(PartsUsed')]

\* sum of the quantities of the first n PartsUsed rows that reference part p
RECURSIVE UsedQty(_, _)
UsedQty(p, n) ==
    IF n = 0 THEN 0
    ELSE UsedQty(p, n - 1) + (IF PartsUsed[n].part_id = p THEN PartsUsed[n].quantity ELSE 0)

\* C1: a use_part(wo, part, q) that returns, with q > 0 on a stored work order and
\* a stored part, leaves the part's quantity at its quantity before minus q, adds
\* exactly one PartsUsed row (wo, part, q) behind the rows stored before, and
\* changes no other part's quantity.
C1_ConsumePartPost ==
    [][\A w \in IdsOf(WorkOrders), p \in IdsOf(Parts), q \in Quantities :
          (/\ q > 0 /\ w \in DOMAIN WorkOrders /\ p \in DOMAIN Parts
           /\ use_part(w, p, q))
          => /\ DOMAIN Parts' = DOMAIN Parts
             /\ Parts'[p].quantity = Parts[p].quantity - q
             /\ \A o \in DOMAIN Parts \ {p} : Parts'[o].quantity = Parts[o].quantity
             /\ Len(PartsUsed') = Len(PartsUsed) + 1
             /\ \A u \in DOMAIN PartsUsed : PartsUsed'[u] = PartsUsed[u]
             /\ NewUsage = [workorder_id |-> w, part_id |-> p, quantity |-> q]]_vars

\* a usage of q > 0 units on a stored work order has been applied to a stored
\* part while a second part kept the quantity it was stocked with
C1_Witness ==
    \E u \in DOMAIN PartsUsed, o \in DOMAIN Parts :
        LET r == PartsUsed[u] IN
        /\ r.quantity > 0
        /\ r.workorder_id \in DOMAIN WorkOrders
        /\ r.part_id \in DOMAIN Parts
        /\ Parts[r.part_id].quantity = stocked[r.part_id] - r.quantity
        /\ o # r.part_id
        /\ Parts[o].quantity = stocked[o]

\* C2: consumePart is atomic: every step that stores a PartsUsed row for a stored
\* part also applies the decrement of that part's quantity.
C2_Atomic ==
    [][Len(PartsUsed') = Len(PartsUsed) + 1
          => (NewUsage.part_id \in DOMAIN Parts
                => Parts'[NewUsage.part_id].quantity
                     = Parts[NewUsage.part_id].quantity - NewUsage.quantity)]_vars

\* C3: every part's quantity is the quantity it was created with minus the sum
\* of the quantities of the PartsUsed rows that reference it.
C3_LedgerReconciles ==
    \A p \in DOMAIN Parts :
        Parts[p].quantity = stocked[p] - UsedQty(p, Len(PartsUsed))

\* C4: use_part with q <= 0 stores no PartsUsed row and changes no quantity.
C4_NonPositiveRejected ==
    [][\A w \in IdsOf(WorkOrders), p \in IdsOf(Parts), q \in Quantities :
          (q <= 0 /\ use_part(w, p, q)) => UNCHANGED <<Parts, PartsUsed>>]_vars

\* C5: every stored PartsUsed row references a stored work order and a stored
\* part (use_part with an unknown id stores nothing).
C5_UsageReferencesExist ==
    \A u \in DOMAIN PartsUsed :
        /\ PartsUsed[u].workorder_id \in DOMAIN WorkOrders
        /\ PartsUsed[u].part_id \in DOMAIN Parts

\* C9 as stated: once a usage is recorded no part's quantity is below zero
\* (parts are stocked with a quantity >= 0).
C9_NeverOversold ==
    PartsUsed # <<>> => \A p \in DOMAIN Parts : Parts[p].quantity >= 0

\* C9 as amended: use_part does not look at the stock; a use_part(wo, part, q)
\* that returns on a stored part leaves its quantity >= 0 exactly when q is at
\* most the quantity before.
C9_OversellAllowed ==
    [][\A w \in IdsOf(WorkOrders), p \in IdsOf(Parts), q \in Quantities :
          (p \in DOMAIN Parts /\ use_part(w, p, q))
          => (Parts'[p].quantity >= 0 <=> q <= Parts[p].quantity)]_vars

\* a part stocked with a quantity >= 0 is below zero after a usage larger than
\* the stock was applied to it
C9_Witness ==
    \E u \in DOMAIN PartsUsed :
        LET p == PartsUsed[u].part_id IN
        /\ p \in DOMAIN Parts
        /\ stocked[p] >= 0
        /\ PartsUsed[u].quantity > stocked[p]
        /\ Parts[p].quantity = stocked[p] - UsedQty(p, Len(PartsUsed))
        /\ Parts[p].quantity < 0

(* ---------------- properties: work order lifecycle ---------------- *)
\* C6: the row create_workorder stores has status Open; close_workorder leaves
\* the stored work order it names Closed; no step takes a Closed work order's
\* status to anything else.
C6_Lifecycle ==
    [][/\ \A e \in IdsOf(Equipment), t \in DOMAIN Technicians \cup {NULL}, d \in Dates :
             create_workorder(e, t, d)
             => WorkOrders'[lastrowid(WorkOrders)].status = "Open"
       /\ \A w \in DOMAIN WorkOrders, d \in Dates :
             close_workorder(w, d) => WorkOrders'[w].status = "Closed"
       /\ \A w \in DOMAIN WorkOrders :
             WorkOrders[w].status = "Closed"
             => (w \in DOMAIN WorkOrders' /\ WorkOrders'[w].status = "Closed")]_vars

\* a work order has been closed and is Closed, next to a work order created
\* after it that is Open
C6_Witness ==
    \E w, v \in DOMAIN WorkOrders :
        /\ w < v
        /\ WorkOrders[w].status = "Closed"
        /\ WorkOrders[w].date_closed \in Dates
        /\ WorkOrders[v].status = "Open"

(* ---------------- properties: reports ---------------- *)
\* the keys of the rows a report returns, as a set
KeysOf(rows) == {rows[i].workorder_id : i \in DOMAIN rows}

\* C7: get_open_workorders returns no work order whose status is Closed.
C7_NoClosedReturned ==
    \A i \in DOMAIN get_open_workorders :
        WorkOrders[get_open_workorders[i].workorder_id].status # "Closed"

\* a Closed work order of a stored customer's equipment is left out while an
\* Open one is returned
C7_Witness ==
    /\ get_open_workorders # <<>>
    /\ \E w \in DOMAIN WorkOrders :
          /\ WorkOrders[w].status = "Closed"
          /\ JoinsCustomer(w)
          /\ w \notin KeysOf(get_open_workorders)

\* C8: get_open_workorders returns every stored work order whose status is
\* Open, each exactly once, ordered by date_opened ascending.
C8_AllOpenReturned ==
    LET rows == get_open_workorders IN
    /\ \A w \in DOMAIN WorkOrders :
          WorkOrders[w].status = "Open"
          => Cardinality({i \in DOMAIN rows : rows[i].workorder_id = w}) = 1
    /\ \A i, j \in DOMAIN rows : i < j => rows[i].date_opened <= rows[j].date_opened

\* the work orders whose equipment is stored and owned by customer c
OwnedBy(c) ==
    {w \in DOMAIN WorkOrders :
        \E e \in DOMAIN Equipment :
            e = WorkOrders[w].equipment_id /\ Equipment[e].customer_id = c}

\* C10: get_workorders_by_customer(c) returns exactly the work orders whose
\* equipment is owned by c, each once with its stored status, Open or Closed,
\* ordered by date_opened descending.
C10_HistoryByCustomer ==
    \A c \in IdsOf(Customers) :
        LET rows == get_workorders_by_customer(c) IN
        /\ KeysOf(rows) = OwnedBy(c)
        /\ Len(rows) = Cardinality(OwnedBy(c))
        /\ \A i \in DOMAIN rows : rows[i].status = WorkOrders[rows[i].workorder_id].status
        /\ \A i, j \in DOMAIN rows : i < j => rows[i].date_opened >= rows[j].date_opened

\* work orders opened on 2024-01-01, 2024-03-01, 2024-02-01, in that order, for
\* one customer come back as 03-01, 02-01, 01-01, a Closed one among them
C10_Witness ==
    \E c \in IdsOf(Customers) :
        LET rows == get_workorders_by_customer(c) IN
        /\ Len(rows) = 3
        /\ <<rows[1].workorder_id, rows[2].workorder_id, rows[3].workorder_id>> = <<2, 3, 1>>
        /\ <<rows[1].date_opened, rows[2].date_opened, rows[3].date_opened>>
              = <<20240301, 20240201, 20240101>>
        /\ rows[1].status = "Closed"
        /\ rows[2].status = "Open"

(* ---------------- properties: references and required fields ---------------- *)
\* C11: every stored work order references a stored equipment record and every
\* stored equipment record references a stored customer (a create_workorder
\* against an unknown equipment id stores nothing).
C11_ReferencesExist ==
    /\ \A w \in DOMAIN WorkOrders : WorkOrders[w].equipment_id \in DOMAIN Equipment
    /\ \A e \in DOMAIN Equipment : Equipment[e].customer_id \in DOMAIN Customers

\* C12: a create returns an id that no stored record of the entity has, and a
\* create with an empty required field (customer first or last name, part sku)
\* stores nothing: no stored customer has an empty name, no stored part an
\* empty sku.
C12_CreateValidates ==
    /\ lastrowid(Customers) \notin DOMAIN Customers
    /\ lastrowid(Parts) \notin DOMAIN Parts
    /\ \A c \in DOMAIN Customers :
          Customers[c].first_name # "" /\ Customers[c].last_name # ""
    /\ \A p \in DOMAIN Parts : Parts[p].sku # ""

(* ---------------- properties: closing and logging ---------------- *)
\* C13: close_workorder never fails; with an id that matches no stored work
\* order it changes nothing at all; with the id of a stored work order it sets
\* status and date_closed of that row, and leaves its other columns, every
\* other work order and every other table as they were.
C13_CloseTouchesOneRow ==
    [][\A w \in IdsOf(WorkOrders), d \in Dates :
          /\ ENABLED close_workorder(w, d)
          /\ close_workorder(w, d) =>
                /\ UNCHANGED <<Customers, Equipment, Technicians, Parts,
                               WorkDetails, PartsUsed>>
                /\ DOMAIN WorkOrders' = DOMAIN WorkOrders
                /\ \A v \in DOMAIN WorkOrders \ {w} : WorkOrders'[v] = WorkOrders[v]
                /\ w \notin DOMAIN WorkOrders => UNCHANGED vars
                /\ w \in DOMAIN WorkOrders =>
                      WorkOrders'[w] = [WorkOrders[w] EXCEPT !.status = "Closed",
                                                             !.date_closed = d]
      ]_vars

\* a work order was closed while an earlier one stays Open and undated, with a
\* row stored in another table
C13_Witness ==
    /\ Len(WorkOrders) = 2
    /\ WorkOrders[2].status = "Closed" /\ WorkOrders[2].date_closed \in Dates
    /\ WorkOrders[1].status = "Open" /\ WorkOrders[1].date_closed = NULL
    /\ Len(Technicians) = 1

\* C14: add_work_detail succeeds on a stored work order whether it is Open or
\* Closed; it appends exactly one WorkDetails row, dated with the current date,
\* and leaves every work order and every part as it was; and no step of the
\* program changes or removes a WorkDetails row stored earlier.
C14_DetailLogAppendOnly ==
    [][/\ \A i \in DOMAIN WorkDetails :
             i \in DOMAIN WorkDetails' /\ WorkDetails'[i] = WorkDetails[i]
       /\ \A w \in DOMAIN WorkOrders, d \in Dates :
             /\ ENABLED add_work_detail(w, d)
             /\ add_work_detail(w, d) =>
                   /\ WorkDetails' = Append(WorkDetails, [workorder_id |-> w, date |-> d])
                   /\ WorkOrders' = WorkOrders
                   /\ Parts' = Parts
      ]_vars

\* a detail is logged against a Closed work order, dated after its closing,
\* while a part holds the quantity it was stocked with
C14_Witness ==
    /\ Len(WorkOrders) = 1 /\ Len(WorkDetails) = 1 /\ Len(Parts) = 1
    /\ WorkOrders[1].status = "Closed"
    /\ WorkDetails[1].workorder_id = 1
    /\ WorkDetails[1].date > WorkOrders[1].date_closed
    /\ Parts[1].quantity = stocked[1]

\* C15: while the system date never goes backwards, a work order has a
\* date_closed exactly when its status is Closed, and a Closed work order was
\* not closed before the day it was opened; closing a work order that is
\* already Closed keeps it Closed and replaces its date_closed with the
\* current date.
C15_ClosedIffDated ==
    /\ [](\A w \in DOMAIN WorkOrders :
             /\ WorkOrders[w].date_closed # NULL <=> WorkOrders[w].status = "Closed"
             /\ WorkOrders[w].status = "Closed" =>
                   WorkOrders[w].date_opened <= WorkOrders[w].date_closed
             /\ WorkOrders[w].status = "Closed" =>
                   \A d \in Dates :
                      ENABLED (/\ close_workorder(w, d)
                               /\ WorkOrders'[w].status = "Closed"
                               /\ WorkOrders'[w].date_closed = d))
    /\ [][\A w \in DOMAIN WorkOrders, d \in Dates :
             WorkOrders[w].status = "Closed" /\ close_workorder(w, d) =>
                /\ WorkOrders'[w].status = "Closed"
                /\ WorkOrders'[w].date_closed = d
         ]_vars

\* a work order closed on a later day than it was opened, another one opened
\* in between and still Open, and a detail logged after the closing
C15_Witness ==
    /\ Len(WorkOrders) = 2 /\ Len(WorkDetails) = 1
    /\ WorkOrders[1].status = "Closed"
    /\ WorkOrders[1].date_opened < WorkOrders[2].date_opened
    /\ WorkOrders[2].date_opened < WorkOrders[1].date_closed
    /\ WorkOrders[2].status = "Open" /\ WorkOrders[2].date_closed = NULL
    /\ WorkDetails[1].date = WorkOrders[1].date_closed
====
